---- MODULE Spec2Model ----
(***************************************************************************)
(* Course access, purchase and lecture progress of skills-ms               *)
(* (src/api/endpoints/course.py), as a state machine of request handlers.  *)
(* Every handler is a sequence of steps, one per awaited call; a request   *)
(* slot holds the handler's position (pc), its local variables and a log   *)
(* of the effects it had.  Spec runs one request at a time, SpecConc runs  *)
(* two request slots interleaved at every await.                           *)
(***************************************************************************)
EXTENDS Integers, Sequences, FiniteSets, TLC

VARIABLES
    courseAccess,     \* rows of models.CourseAccess: <<user_id, course_id>>
    lastWatch,        \* rows of models.LastWatch: <<user_id, course_id>>
    lectureProgress,  \* rows of models.LectureProgress: <<user_id, course_id, lecture_id>>
    xp,               \* models.XP: <<user_id, skill_id>> -> points
    balance,          \* coin ledger of the shop service: user_id -> coins
    premium,          \* users with an active premium subscription (shop service)
    ownedCache,       \* cache namespace "course_access": user_id -> {} (miss) or {value}
    progressCache,    \* cache namespace "lecture_progress": <<course, user>> -> {} or {value}
    req,              \* request slots: the handler in flight (or last finished) per slot
    nreq,             \* number of requests started so far
    tokens,           \* redis keys "mp4_lecture:{token}:{name}" that are live, with their value
    issued,           \* every key get_mp4_lecture_link has stored so far
    bookmarks         \* rows of models.SubSkillBookmark: <<user_id, root_skill_id, sub_skill_id>> -> number of rows

vars == <<courseAccess, lastWatch, lectureProgress, xp, balance, premium,
          ownedCache, progressCache, req, nreq, tokens, issued, bookmarks>>

dbVars == <<courseAccess, lastWatch, lectureProgress, xp>>
cacheVars == <<ownedCache, progressCache>>
streamVars == <<tokens, issued>>

----------------------------------------------------------------------------
(* Bounds and inputs *)

MaxRequests == 3      \* requests started in one behaviour
StartBalance == 5     \* coins of the user u1 in the initial state
AdminBalance == 1     \* coins of the admin u2 in the initial state
LectureXp == 1        \* settings.lecture_xp

Users == {"u1", "u2"}
Admins == {"u2"}                 \* users whose User.admin is true
Skills == {"k1", "k2"}

\* api.services.courses.COURSES: the catalog, course id -> course
COURSES ==
    [c1 |-> [id |-> "c1", free |-> TRUE, price |-> 0,
             sections |-> << [lectures |-> << [id |-> "l1", type |-> "mp4", duration |-> 120],
                                              [id |-> "l4", type |-> "mp4", duration |-> 30] >>] >>],
     c2 |-> [id |-> "c2", free |-> FALSE, price |-> 2,
             sections |-> << [lectures |-> << [id |-> "l2", type |-> "mp4", duration |-> 60] >>],
                             [lectures |-> << [id |-> "l3", type |-> "youtube", duration |-> 0] >>] >>]]

CatalogIds == DOMAIN COURSES
CourseInputs == CatalogIds \cup {"c0", "-"}  \* "c0": not in the catalog; "-": no course_id parameter
LectureInputs == {"l1", "l2", "l3"}

\* rows of models.SkillCourse: the skills a course is associated with
SkillCourse == [c1 |-> {"k1"}, c2 |-> {"k1", "k2"}]

Range(s) == {s[i] : i \in DOMAIN s}

\* the lecture ids of a course, over all its sections
LectureIds(course) ==
    UNION {{lec.id : lec \in Range(sec.lectures)} : sec \in Range(course.sections)}

RECURSIVE Flatten(_)
\* all lectures of a course in catalog order (sections, then lectures)
Flatten(sections) ==
    IF sections = << >> THEN << >>
    ELSE Head(sections).lectures \o Flatten(Tail(sections))

NoLecture == [id |-> "-", type |-> "-", duration |-> 0]

\* get_course: the catalog lookup; FALSE stands for CourseNotFoundException
get_course(course_id) == course_id \in DOMAIN COURSES

\* get_lecture: the first lecture of the course with that id, NoLecture for
\* LectureNotFoundException
get_lecture(lecture_id, course) ==
    LET all == Flatten(course.sections)
        hits == {i \in DOMAIN all : all[i].id = lecture_id}
    IN  IF hits = {} THEN NoLecture
        ELSE all[CHOOSE i \in hits : \A j \in hits : i <= j]

----------------------------------------------------------------------------
(* Pure parts of the handlers *)

\* has_course_access, as a decision: owned is the result of get_owned_courses
\* and prem the result of has_premium (each passed as empty / FALSE while the
\* code has not reached that call yet)
has_course_access(course, user, owned, prem) ==
    \/ course.free \/ user \in Admins
    \/ course.id \in owned
    \/ prem

\* get_owned_courses (uncached body): CourseAccess rows joined with LastWatch rows
get_owned_courses(user_id) ==
    {row[2] : row \in {ca \in courseAccess : ca[1] = user_id}}
        \cup {row[2] : row \in {lw \in lastWatch : lw[1] = user_id}}

\* models.LectureProgress.get_completed
get_completed(user_id, course_id) ==
    {row[3] : row \in {lp \in lectureProgress : lp[1] = user_id /\ lp[2] = course_id}}

\* the course ids get_accessible_courses lists, given get_owned_courses' result
accessible_course_ids(user, owned) ==
    {k \in DOMAIN COURSES : COURSES[k].free \/ user \in Admins}
        \cup (owned \cap DOMAIN COURSES)

\* Course.to_user_course: the lectures of the course reported as completed
to_user_course(course, completed) == LectureIds(course) \cap completed

\* spend_coins: whether the ledger can debit the amount
spend_coins(user_id, amount) == balance[user_id] >= amount

\* the store refuses a second CourseAccess or LectureProgress record for a key
Duplicate(rows, row) == row \in rows

\* redis_cached: the lookup of a key whose stored entry is `entry` ({} or
\* {value}); there is a miss when nothing is stored or the TTL has elapsed
CacheLookup(entry, expired) == IF expired THEN {} ELSE entry

\* the value of a cache entry that is a hit
Cached(entry) == CHOOSE v \in entry : TRUE

\* clear_cache: every entry of the namespace is dropped
clear_cache(namespace) == [k \in DOMAIN namespace |-> {}]

\* redis_cached: what a cached call returns in the current state
\* (the cached value on a hit, the computed one on a miss)
CachedOwned(user_id) ==
    IF ownedCache[user_id] # {} THEN Cached(ownedCache[user_id])
    ELSE get_owned_courses(user_id)

----------------------------------------------------------------------------
(* Request slots *)

\* the endpoints; watch, details and complete depend on has_course_access
Ops == {"watch", "details", "complete", "accessible", "buy"}

\* get_mp4_lecture_link, which depends on has_course_access as well
StreamOps == {"link"}

\* get_course_viewtime, get_tasks_viewtime and get_viewtime: no course parameter
ViewOps == {"course_viewtime", "tasks_viewtime", "viewtime"}

Slots == DOMAIN req

Idle ==
    [op |-> "idle", user |-> "-", course |-> "-", lecture |-> "-",
     pc |-> "done", out |-> "-", access |-> "-",
     owned |-> {}, res |-> {}, todo |-> {},
     debited |-> 0, created |-> FALSE, sent |-> FALSE, cleared |-> {}, xpAdded |-> {},
     xpTried |-> {},
     bal0 |-> 0, own0 |-> FALSE, done0 |-> {}, ack0 |-> {},
     token |-> 0, file |-> << >>, range |-> << >>,
     first |-> 0, last |-> 0, size |-> 0, body |-> << >>, crange |-> << >>,
     before |-> << >>,
     source |-> "-", tasks |-> << >>, total |-> 0, view |-> << >>,
     root |-> "-", queue |-> << >>, tried |-> {}, failed |-> {}, created0 |-> {}]

\* the handler returns or raises: its local variables are gone
Finish(rec, out) ==
    [rec EXCEPT !.pc = "done", !.out = out, !.owned = {}, !.todo = {}, !.queue = << >>]

Set(r, rec) == req' = [req EXCEPT ![r] = rec]

At(r, pc) == req[r].pc = pc

\* the handler body entered without the get_lecture dependency
EnterBodyAnyLecture(rec) ==
    LET ok == [rec EXCEPT !.access = "granted"]
    IN  CASE rec.op = "watch" -> [ok EXCEPT !.pc = "watch"]
          [] rec.op = "details" -> [ok EXCEPT !.pc = "details_get"]
          [] rec.op = "complete" -> [ok EXCEPT !.pc = "is_completed"]
          [] rec.op = "link" -> [ok EXCEPT !.pc = "link"]

\* the handler body, entered once has_course_access has returned
EnterBody(rec) ==
    LET ok == [rec EXCEPT !.access = "granted"]
    IN  CASE rec.op = "watch" -> [ok EXCEPT !.pc = "watch"]
          [] rec.op = "details" -> [ok EXCEPT !.pc = "details_get"]
          [] rec.op = "complete" ->
                IF get_lecture(rec.lecture, COURSES[rec.course]) = NoLecture
                THEN Finish(ok, "LectureNotFoundException")
                ELSE [ok EXCEPT !.pc = "is_completed"]
          [] rec.op = "link" ->
                IF get_lecture(rec.lecture, COURSES[rec.course]) = NoLecture
                THEN Finish(ok, "LectureNotFoundException")
                ELSE [ok EXCEPT !.pc = "link"]

\* the lectures of (u, c) whose completion a finished request has reported
Acknowledged(u, c) ==
    {req[r].lecture : r \in {x \in Slots : /\ req[x].op = "complete" /\ req[x].out = "True"
                                           /\ req[x].user = u /\ req[x].course = c}}

\* A new request.  bal0, own0, done0 and ack0 record what held when it arrived:
\* the user's balance, whether the user owned the course, the lectures
\* completed in the store and those whose completion had been reported.
Fresh(op, u, c, l) ==
    [Idle EXCEPT !.op = op, !.user = u, !.course = c, !.lecture = l,
                 !.bal0 = balance[u],
                 !.own0 = (<<u, c>> \in courseAccess),
                 !.done0 = get_completed(u, c),
                 !.ack0 = Acknowledged(u, c)]

\* A request arrives: the dependencies that do not await run at once
\* (get_course, and the free/admin test of has_course_access).
Begin(r, op, u, c, l) ==
    /\ At(r, "done")
    /\ nreq < MaxRequests
    /\ nreq' = nreq + 1
    /\ LET rec == Fresh(op, u, c, l)
       IN  Set(r, IF op = "accessible" THEN [rec EXCEPT !.pc = "acc_progress"]
                  ELSE IF op \in ViewOps
                  THEN [rec EXCEPT !.pc = IF op = "tasks_viewtime" THEN "tasks_fetch"
                                          ELSE "viewtime_read"]
                  ELSE IF ~get_course(c) THEN Finish(rec, "CourseNotFoundException")
                  ELSE IF op = "buy" THEN [rec EXCEPT !.pc = "buy_check"]
                  ELSE IF has_course_access(COURSES[c], u, {}, FALSE) THEN EnterBody(rec)
                  ELSE [rec EXCEPT !.pc = "owned_get"])
    /\ UNCHANGED <<dbVars, balance, premium, cacheVars, streamVars, bookmarks>>

----------------------------------------------------------------------------
(* get_owned_courses behind redis_cached("course_access", "user_id"), and the
   rest of has_course_access *)

\* has_course_access / get_accessible_courses, once get_owned_courses returned
AfterOwned(rec, owned) ==
    LET got == [rec EXCEPT !.owned = owned]
    IN  IF rec.op = "accessible"
        THEN Finish([got EXCEPT !.res = accessible_course_ids(rec.user, owned)], "True")
        ELSE IF has_course_access(COURSES[rec.course], rec.user, owned, FALSE)
             THEN EnterBody(got)
             ELSE [got EXCEPT !.pc = "premium"]

\* redis_cached: look the key up.  A hit returns the cached value; on a miss
\* the body of get_owned_courses runs next.
OwnedCacheGet(r) ==
    /\ At(r, "owned_get")
    /\ \E expired \in BOOLEAN :
          LET entry == CacheLookup(ownedCache[req[r].user], expired)
          IN  /\ ownedCache' = [ownedCache EXCEPT ![req[r].user] = entry]
              /\ Set(r, IF entry # {} THEN AfterOwned(req[r], Cached(entry))
                        ELSE [req[r] EXCEPT !.pc = "owned_db"])
    /\ UNCHANGED <<dbVars, balance, premium, progressCache, nreq, streamVars, bookmarks>>

\* a miss: run the body of get_owned_courses against the database
OwnedDbRead(r) ==
    /\ At(r, "owned_db")
    /\ Set(r, [req[r] EXCEPT !.owned = get_owned_courses(req[r].user), !.pc = "owned_set"])
    /\ UNCHANGED <<dbVars, balance, premium, cacheVars, nreq, streamVars, bookmarks>>

\* redis_cached: store the computed value and return it
OwnedCacheSet(r) ==
    /\ At(r, "owned_set")
    /\ ownedCache' = [ownedCache EXCEPT ![req[r].user] = {req[r].owned}]
    /\ Set(r, AfterOwned(req[r], req[r].owned))
    /\ UNCHANGED <<dbVars, balance, premium, progressCache, nreq, streamVars, bookmarks>>

\* has_course_access: the has_premium call, then NoCourseAccessException
AccessPremium(r) ==
    /\ At(r, "premium")
    /\ Set(r, IF has_course_access(COURSES[req[r].course], req[r].user, req[r].owned,
                                   req[r].user \in premium)
              THEN EnterBody(req[r])
              ELSE Finish([req[r] EXCEPT !.access = "denied"], "NoCourseAccessException"))
    /\ UNCHANGED <<dbVars, balance, premium, cacheVars, nreq, streamVars, bookmarks>>

----------------------------------------------------------------------------
(* watch_course *)

watch_course(r) ==
    /\ At(r, "watch")
    /\ lastWatch' = lastWatch \cup {<<req[r].user, req[r].course>>}
    /\ Set(r, Finish(req[r], "True"))
    /\ UNCHANGED <<courseAccess, lectureProgress, xp, balance, premium, cacheVars, nreq, streamVars, bookmarks>>

----------------------------------------------------------------------------
(* get_course_details behind redis_cached("lecture_progress", "course", "user") *)

DetailsKey(rec) == <<rec.course, rec.user>>

DetailsCacheGet(r) ==
    /\ At(r, "details_get")
    /\ \E expired \in BOOLEAN :
          LET entry == CacheLookup(progressCache[DetailsKey(req[r])], expired)
          IN  /\ progressCache' = [progressCache EXCEPT ![DetailsKey(req[r])] = entry]
              /\ Set(r, IF entry # {} THEN Finish([req[r] EXCEPT !.res = Cached(entry)], "True")
                        ELSE [req[r] EXCEPT !.pc = "details_db"])
    /\ UNCHANGED <<dbVars, balance, premium, ownedCache, nreq, streamVars, bookmarks>>

DetailsDbRead(r) ==
    /\ At(r, "details_db")
    /\ Set(r, [req[r] EXCEPT
                  !.res = to_user_course(COURSES[req[r].course],
                                         get_completed(req[r].user, req[r].course)),
                  !.pc = "details_set"])
    /\ UNCHANGED <<dbVars, balance, premium, cacheVars, nreq, streamVars, bookmarks>>

DetailsCacheSet(r) ==
    /\ At(r, "details_set")
    /\ progressCache' = [progressCache EXCEPT ![DetailsKey(req[r])] = {req[r].res}]
    /\ Set(r, Finish(req[r], "True"))
    /\ UNCHANGED <<dbVars, balance, premium, ownedCache, nreq, streamVars, bookmarks>>

get_course_details(r) == DetailsCacheGet(r) \/ DetailsDbRead(r) \/ DetailsCacheSet(r)

----------------------------------------------------------------------------
(* get_accessible_courses *)

\* the LectureProgress rows are read first, then get_owned_courses is called
AccessibleProgress(r) ==
    /\ At(r, "acc_progress")
    /\ Set(r, [req[r] EXCEPT !.pc = "owned_get"])
    /\ UNCHANGED <<dbVars, balance, premium, cacheVars, nreq, streamVars, bookmarks>>

----------------------------------------------------------------------------
(* complecte_lecture *)

LectureRow(rec) == <<rec.user, rec.course, rec.lecture>>

\* models.LectureProgress.is_completed, and the AlreadyCompletedLectureException
IsCompleted(r) ==
    /\ At(r, "is_completed")
    /\ Set(r, IF LectureRow(req[r]) \in lectureProgress
              THEN Finish(req[r], "AlreadyCompletedLectureException")
              ELSE [req[r] EXCEPT !.pc = "set_completed"])
    /\ UNCHANGED <<dbVars, balance, premium, cacheVars, nreq, streamVars, bookmarks>>

\* models.LectureProgress.set_completed; the store rejects a second row for
\* the same triple with an error of its own.  The SkillCourse rows of the
\* course are then streamed.
SetCompleted(r) ==
    /\ At(r, "set_completed")
    /\ IF Duplicate(lectureProgress, LectureRow(req[r]))
       THEN /\ Set(r, Finish(req[r], "Error"))
            /\ UNCHANGED lectureProgress
       ELSE /\ lectureProgress' = lectureProgress \cup {LectureRow(req[r])}
            /\ Set(r, [req[r] EXCEPT !.created = TRUE,
                                     !.todo = SkillCourse[req[r].course],
                                     !.pc = IF SkillCourse[req[r].course] = {}
                                            THEN "clear_xp" ELSE "add_xp"])
    /\ UNCHANGED <<courseAccess, lastWatch, xp, balance, premium, cacheVars, nreq, streamVars, bookmarks>>

\* one turn of the loop over the SkillCourse rows: models.XP.add_xp either
\* adds settings.lecture_xp or raises, and nothing in the loop catches it
AddXp(r) ==
    /\ At(r, "add_xp")
    /\ \E k \in req[r].todo, ok \in BOOLEAN :
          IF ok
          THEN /\ xp' = [xp EXCEPT ![<<req[r].user, k>>] = @ + LectureXp]
               /\ Set(r, [req[r] EXCEPT !.xpAdded = @ \cup {k},
                                        !.xpTried = @ \cup {k},
                                        !.todo = @ \ {k},
                                        !.pc = IF req[r].todo = {k}
                                               THEN "clear_xp" ELSE "add_xp"])
          ELSE /\ Set(r, Finish([req[r] EXCEPT !.xpTried = @ \cup {k}], "Error"))
               /\ UNCHANGED xp
    /\ UNCHANGED <<courseAccess, lastWatch, lectureProgress, balance, premium,
                   cacheVars, nreq, streamVars, bookmarks>>

\* clear_cache("xp"): none of the endpoints here reads that namespace
ClearXp(r) ==
    /\ At(r, "clear_xp")
    /\ Set(r, [req[r] EXCEPT !.cleared = @ \cup {"xp"}, !.pc = "clear_progress"])
    /\ UNCHANGED <<dbVars, balance, premium, cacheVars, nreq, streamVars, bookmarks>>

\* clear_cache("lecture_progress")
ClearProgress(r) ==
    /\ At(r, "clear_progress")
    /\ progressCache' = clear_cache(progressCache)
    /\ Set(r, Finish([req[r] EXCEPT !.cleared = @ \cup {"lecture_progress"}], "True"))
    /\ UNCHANGED <<dbVars, balance, premium, ownedCache, nreq, streamVars, bookmarks>>

complecte_lecture(r) ==
    IsCompleted(r) \/ SetCompleted(r) \/ AddXp(r) \/ ClearXp(r) \/ ClearProgress(r)

----------------------------------------------------------------------------
(* buy_course *)

\* buy_course with its two tests in the other order
BuyCheckExistsFirst(r) ==
    /\ At(r, "buy_check")
    /\ Set(r, IF <<req[r].user, req[r].course>> \in courseAccess
              THEN Finish(req[r], "AlreadyPurchasedCourseException")
              ELSE IF COURSES[req[r].course].free
                   THEN Finish(req[r], "CourseIsFreeException")
                   ELSE [req[r] EXCEPT !.pc = "buy_spend"])
    /\ UNCHANGED <<dbVars, balance, premium, cacheVars, nreq, streamVars, bookmarks>>

\* CourseIsFreeException, then the db.exists test and AlreadyPurchasedCourseException
BuyCheck(r) ==
    /\ At(r, "buy_check")
    /\ Set(r, IF COURSES[req[r].course].free
              THEN Finish(req[r], "CourseIsFreeException")
              ELSE IF <<req[r].user, req[r].course>> \in courseAccess
                   THEN Finish(req[r], "AlreadyPurchasedCourseException")
                   ELSE [req[r] EXCEPT !.pc = "buy_spend"])
    /\ UNCHANGED <<dbVars, balance, premium, cacheVars, nreq, streamVars, bookmarks>>

\* buy_course going on to the record although the debit was refused
BuySpendIgnoresRefusal(r) ==
    /\ At(r, "buy_spend")
    /\ LET price == COURSES[req[r].course].price
       IN  IF spend_coins(req[r].user, price)
           THEN /\ balance' = [balance EXCEPT ![req[r].user] = @ - price]
                /\ Set(r, [req[r] EXCEPT !.debited = @ + price, !.pc = "buy_create"])
           ELSE /\ Set(r, [req[r] EXCEPT !.pc = "buy_create"])
                /\ UNCHANGED balance
    /\ UNCHANGED <<dbVars, premium, cacheVars, nreq, streamVars, bookmarks>>

\* spend_coins debits the price, or reports failure: NotEnoughCoinsError
BuySpend(r) ==
    /\ At(r, "buy_spend")
    /\ LET price == COURSES[req[r].course].price
       IN  IF spend_coins(req[r].user, price)
           THEN /\ balance' = [balance EXCEPT ![req[r].user] = @ - price]
                /\ Set(r, [req[r] EXCEPT !.debited = @ + price, !.pc = "buy_create"])
           ELSE /\ Set(r, Finish(req[r], "NotEnoughCoinsError"))
                /\ UNCHANGED balance
    /\ UNCHANGED <<dbVars, premium, cacheVars, nreq, streamVars, bookmarks>>

\* models.CourseAccess.create; a second record for the same pair is an error
BuyCreate(r) ==
    /\ At(r, "buy_create")
    /\ IF Duplicate(courseAccess, <<req[r].user, req[r].course>>)
       THEN /\ Set(r, Finish(req[r], "Error"))
            /\ UNCHANGED courseAccess
       ELSE /\ courseAccess' = courseAccess \cup {<<req[r].user, req[r].course>>}
            /\ Set(r, [req[r] EXCEPT !.created = TRUE, !.pc = "buy_notify"])
    /\ UNCHANGED <<lastWatch, lectureProgress, xp, balance, premium, cacheVars, nreq, streamVars, bookmarks>>

\* get_email and BOUGHT_COURSE.send: the mail is sent, there is no address,
\* or one of the two calls raises (nothing in buy_course catches it)
BuyNotify(r) ==
    /\ At(r, "buy_notify")
    /\ \E mail \in {"sent", "no_email", "raise"} :
          Set(r, CASE mail = "sent" -> [req[r] EXCEPT !.sent = TRUE, !.pc = "buy_clear"]
                   [] mail = "no_email" -> [req[r] EXCEPT !.pc = "buy_clear"]
                   [] mail = "raise" -> Finish(req[r], "Error"))
    /\ UNCHANGED <<dbVars, balance, premium, cacheVars, nreq, streamVars, bookmarks>>

\* clear_cache("course_access")
BuyClear(r) ==
    /\ At(r, "buy_clear")
    /\ ownedCache' = clear_cache(ownedCache)
    /\ Set(r, Finish([req[r] EXCEPT !.cleared = @ \cup {"course_access"}], "True"))
    /\ UNCHANGED <<dbVars, balance, premium, progressCache, nreq, streamVars, bookmarks>>

buy_course(r) == BuyCheck(r) \/ BuySpend(r) \/ BuyCreate(r) \/ BuyNotify(r) \/ BuyClear(r)

----------------------------------------------------------------------------
(* get_mp4_lecture_link and download_mp4_lecture *)

MaxTokens == 2          \* tokens issued in one behaviour
MaxOffset == 3          \* largest byte offset a Range header names
LargeFile == 3          \* size of the file of lecture l1 of course c1
SmallFile == 1          \* size of the file of lecture l2 of course c2
StreamChunkSize == 2    \* settings.stream_chunk_size

Min(a, b) == IF a <= b THEN a ELSE b
Max(a, b) == IF a >= b THEN a ELSE b

\* settings.mp4_lectures.joinpath(course.id, lecture.id + ".mp4")
Path(course_id, lecture_id) == <<"mp4_lectures", course_id, lecture_id>>

\* f"{course.id}_{lecture.id}.mp4"
Name(course_id, lecture_id) == <<course_id, lecture_id>>

\* the files under settings.mp4_lectures, with their size
Mp4Files == (Path("c1", "l1") :> LargeFile) @@ (Path("c2", "l2") :> SmallFile)

\* the bytes of a file: every byte of every file is a different value
FileBytes(path) == [i \in 1..Mp4Files[path] |-> <<path, i>>]

\* secrets.token_urlsafe(64): a token is never drawn twice
Tokens == 1..MaxTokens
NoToken == 0            \* a token the client made up

Digit == <<"0", "1", "2", "3", "4", "5", "6", "7", "8", "9">>

DigitValue(ch) == CHOOSE d \in 0..9 : Digit[d + 1] = ch

RECURSIVE str(_)
\* the decimal digits of an integer, as f"{n}" writes them
str(n) ==
    IF n < 0 THEN <<"-">> \o str(0 - n)
    ELSE IF n < 10 THEN <<Digit[n + 1]>>
    ELSE str(n \div 10) \o <<Digit[(n % 10) + 1]>>

RECURSIVE int(_)
\* int() of a string of decimal digits
int(digits) ==
    IF Len(digits) = 1 THEN DigitValue(digits[1])
    ELSE 10 * int(SubSeq(digits, 1, Len(digits) - 1)) + DigitValue(digits[Len(digits)])

RangePrefix == <<"b", "y", "t", "e", "s", "=">>

\* a Range header the regex of download_mp4_lecture lets through:
\* "bytes=<first>-" or "bytes=<first>-<last>"; last is {} or {number}
RangeHeader(first, last) ==
    RangePrefix \o str(first) \o <<"-">>
        \o (IF last = {} THEN << >> ELSE str(CHOOSE b \in last : TRUE))

Offsets == 0..MaxOffset
Ranges == {RangeHeader(a, e) : a \in Offsets, e \in {{}} \cup {{b} : b \in Offsets}}

\* str.removeprefix
removeprefix(string, prefix) ==
    IF Len(string) >= Len(prefix) /\ SubSeq(string, 1, Len(prefix)) = prefix
    THEN SubSeq(string, Len(prefix) + 1, Len(string))
    ELSE string

\* str.split on a separator that occurs once: the parts before and after it
split(string, sep) ==
    LET at == CHOOSE i \in DOMAIN string :
                  string[i] = sep /\ \A j \in DOMAIN string : string[j] = sep => i <= j
    IN  <<SubSeq(string, 1, at - 1), SubSeq(string, at + 1, Len(string))>>

\* video.seek(pos) and video.read(size) on a binary file: size -1 reads to
\* the end of the file, a size below -1 is a ValueError (see ReadFails)
read(content, pos, size) ==
    IF size = -1 THEN SubSeq(content, pos + 1, Len(content))
    ELSE SubSeq(content, pos + 1, Min(pos + size, Len(content)))

ReadFails(size) == size < -1

\* f"bytes {start}-{end - 1}/{filesize}"
ContentRange(start, last, filesize) ==
    <<"b", "y", "t", "e", "s", " ">> \o str(start) \o <<"-">> \o str(last)
        \o <<"/">> \o str(filesize)

\* the exclusive end download_mp4_lecture computes from the header
RangeEnd(start, _end, filesize) ==
    LET end == IF _end # << >> THEN Max(start, int(_end) + 1)
               ELSE start + StreamChunkSize
    IN  Min(end, filesize)

\* download_mp4_lecture once redis.get has returned a path
Serve(rec, path) ==
    LET parts == split(removeprefix(rec.range, RangePrefix), "-")
        start == int(parts[1])
        filesize == Mp4Files[path]
        end == RangeEnd(start, parts[2], filesize)
    IN  IF ReadFails(end - start)
        THEN Finish([rec EXCEPT !.first = start, !.last = end - 1, !.size = filesize],
                    "Error")
        ELSE Finish([rec EXCEPT !.first = start, !.last = end - 1, !.size = filesize,
                                !.body = read(FileBytes(path), start, end - start),
                                !.crange = ContentRange(start, end - 1, filesize)],
                    "206")

\* A new download_mp4_lecture request.  before records what the slot's last
\* request returned, if that was a served redemption of the same token, file
\* and range.
Redemption(r, token, file, range) ==
    [Idle EXCEPT !.op = "download", !.token = token, !.file = file, !.range = range,
                 !.before = IF /\ req[r].op = "download" /\ req[r].out = "206"
                               /\ req[r].token = token /\ req[r].file = file
                               /\ req[r].range = range
                            THEN <<req[r].body, req[r].crange>>
                            ELSE << >>]

\* a lookup that goes by the token alone
RedisByToken(token, file) == {t \in tokens : t.token = token}

\* the live keys "mp4_lecture:{token}:{file}"
Redis(token, file) == {t \in tokens : t.token = token /\ t.name = file}

\* get_mp4_lecture_link: the body, entered with an existing lecture
get_mp4_lecture_link(r) ==
    /\ At(r, "link")
    /\ LET lecture == get_lecture(req[r].lecture, COURSES[req[r].course])
           path == Path(req[r].course, req[r].lecture)
           name == Name(req[r].course, req[r].lecture)
       IN  IF lecture.type # "mp4" \/ path \notin DOMAIN Mp4Files
           THEN /\ Set(r, Finish(req[r], "LectureNotFoundException"))
                /\ UNCHANGED streamVars
           ELSE \E token \in Tokens \ {t.token : t \in issued} :
                   LET key == [token |-> token, name |-> name, path |-> path]
                   IN  /\ tokens' = tokens \cup {key}
                       /\ issued' = issued \cup {key}
                       /\ Set(r, Finish([req[r] EXCEPT !.token = token, !.file = name],
                                        "True"))
    /\ UNCHANGED <<dbVars, balance, premium, cacheVars, nreq, bookmarks>>

\* redis drops a key once settings.stream_token_ttl has elapsed
TokenExpire ==
    /\ \E t \in tokens : tokens' = tokens \ {t}
    /\ UNCHANGED <<dbVars, balance, premium, cacheVars, req, nreq, issued, bookmarks>>

\* download_mp4_lecture with tokens that are good for one redemption
DownloadSingleUse(r, token, file, range) ==
    /\ At(r, "done")
    /\ nreq < MaxRequests
    /\ nreq' = nreq + 1
    /\ LET rec == Redemption(r, token, file, range)
           hit == Redis(token, file)
       IN  /\ Set(r, IF hit = {} THEN Finish(rec, "LectureNotFoundException")
                     ELSE Serve(rec, (CHOOSE t \in hit : TRUE).path))
           /\ tokens' = tokens \ hit
    /\ UNCHANGED <<dbVars, balance, premium, cacheVars, issued, bookmarks>>

\* download_mp4_lecture looking the key up among all keys ever stored
DownloadIgnoresExpiry(r, token, file, range) ==
    /\ At(r, "done")
    /\ nreq < MaxRequests
    /\ nreq' = nreq + 1
    /\ LET rec == Redemption(r, token, file, range)
           hit == {t \in issued : t.token = token /\ t.name = file}
       IN  Set(r, IF hit = {} THEN Finish(rec, "LectureNotFoundException")
                  ELSE Serve(rec, (CHOOSE t \in hit : TRUE).path))
    /\ UNCHANGED <<dbVars, balance, premium, cacheVars, streamVars, bookmarks>>

\* download_mp4_lecture: the only await is redis.get, the first statement
download_mp4_lecture(r, token, file, range) ==
    /\ At(r, "done")
    /\ nreq < MaxRequests
    /\ nreq' = nreq + 1
    /\ LET rec == Redemption(r, token, file, range)
           hit == Redis(token, file)
       IN  Set(r, IF hit = {} THEN Finish(rec, "LectureNotFoundException")
                  ELSE Serve(rec, (CHOOSE t \in hit : TRUE).path))
    /\ UNCHANGED <<dbVars, balance, premium, cacheVars, streamVars, bookmarks>>

----------------------------------------------------------------------------
(* get_course_viewtime, get_tasks_viewtime and get_viewtime *)

MaxTasks == 2           \* subtasks in one answer of the challenges service
QuestionTime == 60      \* seconds for a MULTIPLE_CHOICE_QUESTION or MATCHING subtask
CodingTime == 60 * 30   \* seconds for a CODING_CHALLENGE subtask

\* COURSES.values(): the courses in the order of the catalog
CourseOrder == <<"c1", "c2">>

\* Course.summary: the sections of the course, every lecture with its
\* duration and whether its id is among the completed ones
summary(course, completed) ==
    [id |-> course.id,
     sections |->
        [i \in DOMAIN course.sections |->
            [title |-> i,
             lectures |->
                [j \in DOMAIN course.sections[i].lectures |->
                    LET lecture == course.sections[i].lectures[j]
                    IN  [title |-> lecture.id, duration |-> lecture.duration,
                         completed |-> lecture.id \in completed]]]]]

RECURSIVE ViewLecturesAll(_)
\* the inner loop of get_course_viewtime without the test of lecture.completed
ViewLecturesAll(lectures) ==
    IF lectures = << >> THEN << >>
    ELSE LET lecture == Head(lectures)
         IN  (IF lecture.duration > 0
              THEN << [lecture_name |-> lecture.title, time |-> lecture.duration] >>
              ELSE << >>) \o ViewLecturesAll(Tail(lectures))

RECURSIVE ViewLectures(_)
\* the inner loop of get_course_viewtime: the ViewTimeLecture entries of a section
ViewLectures(lectures) ==
    IF lectures = << >> THEN << >>
    ELSE LET lecture == Head(lectures)
         IN  (IF lecture.duration > 0 /\ lecture.completed
              THEN << [lecture_name |-> lecture.title, time |-> lecture.duration] >>
              ELSE << >>) \o ViewLectures(Tail(lectures))

RECURSIVE SumTime(_)
\* section_time += lecture.duration, over the entries appended
SumTime(entries) ==
    IF entries = << >> THEN 0 ELSE Head(entries).time + SumTime(Tail(entries))

RECURSIVE ViewSections(_)
\* the loop over the sections: a ViewTimeSection for every section_time > 0
ViewSections(sections) ==
    IF sections = << >> THEN << >>
    ELSE LET lectures == ViewLectures(Head(sections).lectures)
             section_time == SumTime(lectures)
         IN  (IF section_time > 0
              THEN << [section_name |-> Head(sections).title,
                       total_time |-> section_time, lectures |-> lectures] >>
              ELSE << >>) \o ViewSections(Tail(sections))

RECURSIVE SumTotal(_)
\* total_time += section_time, and the sum over sub_skill_reponses
SumTotal(entries) ==
    IF entries = << >> THEN 0 ELSE Head(entries).total_time + SumTotal(Tail(entries))

RECURSIVE ViewSubSkills(_)
\* the loop over lecture_data: a ViewTimeSubSkill for every total_time > 0
ViewSubSkills(lecture_data) ==
    IF lecture_data = << >> THEN << >>
    ELSE LET sections == ViewSections(Head(lecture_data).sections)
             total_time == SumTotal(sections)
         IN  (IF total_time > 0
              THEN << [sub_skill_id |-> Head(lecture_data).id,
                       total_time |-> total_time, sections |-> sections] >>
              ELSE << >>) \o ViewSubSkills(Tail(lecture_data))

\* get_course_viewtime: the LectureProgress rows of the user are read, then
\* the ViewTime is computed from the catalog
ViewtimeRead(r) ==
    /\ At(r, "viewtime_read")
    /\ LET lecture_data ==
               [i \in DOMAIN CourseOrder |->
                   summary(COURSES[CourseOrder[i]],
                           get_completed(req[r].user, CourseOrder[i]))]
           sub_skills == ViewSubSkills(lecture_data)
           got == [req[r] EXCEPT !.view = sub_skills, !.total = SumTotal(sub_skills)]
       IN  Set(r, IF req[r].op = "viewtime" THEN [got EXCEPT !.pc = "tasks_fetch"]
                  ELSE Finish(got, "ViewTime"))
    /\ UNCHANGED <<dbVars, balance, premium, cacheVars, nreq, streamVars, bookmarks>>

TaskTypes == {"MULTIPLE_CHOICE_QUESTION", "MATCHING", "CODING_CHALLENGE", "OTHER"}

\* an element of the answer that SubTask(**subtask) does not accept
Invalid == "invalid"

RECURSIVE Lists(_, _)
\* the sequences over a set up to a length
Lists(elements, n) ==
    IF n = 0 THEN {<< >>}
    ELSE LET shorter == Lists(elements, n - 1)
         IN  shorter \cup {Append(l, x) : l \in shorter, x \in elements}

\* what the challenges service can answer: an error status, or status 200
\* with a JSON list of subtasks, a JSON object (its keys given) or null
Responses ==
    {[status |-> "error", kind |-> "list", items |-> << >>]}
        \cup {[status |-> "ok", kind |-> "list", items |-> l] :
                 l \in Lists(TaskTypes \cup {Invalid}, MaxTasks)}
        \cup {[status |-> "ok", kind |-> "object", items |-> l] : l \in {<< >>, <<Invalid>>}}
        \cup {[status |-> "ok", kind |-> "null", items |-> << >>]}

\* the answer is a list of well-formed subtasks
WellFormed(response) ==
    /\ response.status = "ok" /\ response.kind = "list"
    /\ \A i \in DOMAIN response.items : response.items[i] \in TaskTypes

\* challenge_subtasks: raise_for_status raises on an error status, iterating
\* null raises, and SubTask(**subtask) raises on anything that is not a
\* well-formed subtask; what is left is returned as a list
challenge_subtasks(response) ==
    IF \/ response.status # "ok"
       \/ response.kind = "null"
       \/ \E i \in DOMAIN response.items : response.items[i] \notin TaskTypes
    THEN [raised |-> TRUE, kind |-> "-", items |-> << >>]
    ELSE [raised |-> FALSE, kind |-> "list", items |-> response.items]

RECURSIVE TaskTimeNoMatching(_)
\* the loop of get_tasks_viewtime with MATCHING subtasks left out
TaskTimeNoMatching(tasks_data) ==
    IF tasks_data = << >> THEN 0
    ELSE LET task_type == Head(tasks_data)
         IN  (IF task_type = "MULTIPLE_CHOICE_QUESTION" THEN QuestionTime
              ELSE IF task_type = "CODING_CHALLENGE" THEN CodingTime
              ELSE 0) + TaskTimeNoMatching(Tail(tasks_data))

RECURSIVE TaskTime(_)
\* the loop of get_tasks_viewtime over tasks_data
TaskTime(tasks_data) ==
    IF tasks_data = << >> THEN 0
    ELSE LET task_type == Head(tasks_data)
         IN  (IF task_type = "MULTIPLE_CHOICE_QUESTION" \/ task_type = "MATCHING"
              THEN QuestionTime
              ELSE IF task_type = "CODING_CHALLENGE" THEN CodingTime
              ELSE 0) + TaskTime(Tail(tasks_data))

\* get_tasks_viewtime once challenge_subtasks has returned: a DataFetchError
\* object is returned (not raised) for anything but a list
get_tasks_viewtime(tasks_data) ==
    IF tasks_data.kind # "list"
    THEN [error |-> TRUE, total_time |-> 0]
    ELSE [error |-> FALSE, total_time |-> TaskTime(tasks_data.items)]

\* get_tasks_viewtime, alone or called by get_viewtime: the await of
\* challenge_subtasks and what follows it.  An exception of challenge_subtasks
\* is caught nowhere; get_viewtime reads total_time of whatever it got back.
TasksFetch(r) ==
    /\ At(r, "tasks_fetch")
    /\ \E response \in Responses :
          LET tasks_data == challenge_subtasks(response)
              rec == [req[r] EXCEPT !.source = IF WellFormed(response) THEN "ok"
                                               ELSE IF response.status # "ok" THEN "failed"
                                               ELSE "malformed"]
              result == get_tasks_viewtime(tasks_data)
          IN  Set(r, IF tasks_data.raised THEN Finish(rec, "Error")
                     ELSE IF req[r].op = "tasks_viewtime"
                     THEN IF result.error THEN Finish(rec, "DataFetchError")
                          ELSE Finish([rec EXCEPT !.tasks = tasks_data.items,
                                                  !.total = result.total_time],
                                      "TotalTime")
                     ELSE IF result.error THEN Finish(rec, "Error")
                     ELSE Finish([rec EXCEPT !.tasks = tasks_data.items,
                                             !.total = @ + result.total_time],
                                 "TotalTime"))
    /\ UNCHANGED <<dbVars, balance, premium, cacheVars, nreq, streamVars, bookmarks>>

----------------------------------------------------------------------------
(* create_bookmark, delete_bookmark, create_sub_skill_bookmark and
   delete_sub_skill_bookmark (src/api/endpoints/bookmarks.py) over
   models.SubSkillBookmark (src/api/models/bookmarks.py) *)

\* the skill tree: root skill id -> its sub_skills, in order
RootSkills == [r1 |-> <<"s1", "s2">>]

RootInputs == DOMAIN RootSkills \cup {"r0"}    \* "r0": no such root skill
SubInputs == {"s1", "s2", "s0"}                  \* "s0": no such sub skill
BookmarkUsers == {"u1"}

\* the table has a surrogate key only (no unique constraint on the triple),
\* so the state of a triple is the number of its rows
BookmarkKeys == BookmarkUsers \X (DOMAIN RootSkills) \X {"s1", "s2"}

RootOps == {"create_bookmark", "delete_bookmark"}
SubOps == {"create_sub_skill_bookmark", "delete_sub_skill_bookmark"}
CreateOps == {"create_bookmark", "create_sub_skill_bookmark"}

\* the triple the handler is working on: the head of the loop
BookmarkKey(rec) == <<rec.user, rec.root, Head(rec.queue)>>

\* the sub skills of the root that the user has bookmarked
Bookmarked(u, root) ==
    {s \in Range(RootSkills[root]) : bookmarks[<<u, root, s>>] > 0}

\* the first await of SubSkillBookmark.create / SubSkillBookmark.delete
FirstStep(op) == IF op \in CreateOps THEN "bm_exists" ELSE "bm_get"

\* A bookmark request arrives: get_root_skill and get_sub_skill look the
\* skill up.  created0 holds, for a deletion that follows a creation by the
\* same user on the same root skill (and sub skill) in its slot, the sub
\* skills whose creation did not fail.
BeginBookmark(r, op, u, root, sub) ==
    /\ At(r, "done")
    /\ nreq < MaxRequests
    /\ nreq' = nreq + 1
    /\ LET known == /\ root \in DOMAIN RootSkills
                    /\ op \in SubOps => sub \in Range(RootSkills[root])
           rec == [Idle EXCEPT
                      !.op = op, !.user = u, !.root = root,
                      !.queue = IF ~known THEN << >>
                                ELSE IF op \in RootOps THEN RootSkills[root]
                                ELSE <<sub>>,
                      !.created0 = IF /\ known
                                      /\ req[r].user = u /\ req[r].root = root
                                      /\ \/ /\ op = "delete_bookmark"
                                            /\ req[r].op = "create_bookmark"
                                         \/ /\ op = "delete_sub_skill_bookmark"
                                            /\ req[r].op = "create_sub_skill_bookmark"
                                            /\ req[r].tried = {sub}
                                   THEN req[r].tried \ req[r].failed
                                   ELSE {}]
       IN  Set(r, IF ~known THEN Finish(rec, "SkillNotFoundException")
                  ELSE IF rec.queue = << >> THEN Finish(rec, "True")
                  ELSE [rec EXCEPT !.pc = FirstStep(op)])
    /\ UNCHANGED <<dbVars, balance, premium, cacheVars, streamVars, bookmarks>>

\* the call for one sub skill raised and nothing catches it
SubDoneAborts(rec, failure) ==
    LET cur == Head(rec.queue)
        done == [rec EXCEPT !.tried = @ \cup {cur},
                            !.failed = IF failure = "-" THEN @ ELSE @ \cup {cur}]
    IN  IF failure # "-" THEN Finish(done, failure)
        ELSE IF rec.op \in SubOps \/ Tail(rec.queue) = << >> THEN Finish(done, "True")
        ELSE [done EXCEPT !.queue = Tail(@), !.pc = FirstStep(rec.op)]

\* The call for one sub skill has returned ("-") or raised (failure).
\* create_bookmark and delete_bookmark catch every exception, go on with the
\* next sub skill and return True; the sub skill endpoints pass it on.
SubDone(rec, failure) ==
    LET cur == Head(rec.queue)
        done == [rec EXCEPT !.tried = @ \cup {cur},
                            !.failed = IF failure = "-" THEN @ ELSE @ \cup {cur}]
    IN  IF rec.op \in SubOps THEN Finish(done, IF failure = "-" THEN "True" ELSE failure)
        ELSE IF Tail(rec.queue) = << >> THEN Finish(done, "True")
        ELSE [done EXCEPT !.queue = Tail(@), !.pc = FirstStep(rec.op)]

\* SubSkillBookmark.create: db.exists, and AlreadyBookmarkedException
BookmarkExists(r) ==
    /\ At(r, "bm_exists")
    /\ Set(r, IF bookmarks[BookmarkKey(req[r])] > 0
              THEN SubDone(req[r], "AlreadyBookmarkedException")
              ELSE [req[r] EXCEPT !.pc = "bm_add"])
    /\ UNCHANGED <<dbVars, balance, premium, cacheVars, nreq, streamVars, bookmarks>>

\* SubSkillBookmark.create: db.add stores a new row, or the store fails;
\* clear_cache("skills") follows
BookmarkAdd(r) ==
    /\ At(r, "bm_add")
    /\ \E stored \in BOOLEAN :
          IF stored
          THEN /\ bookmarks' = [bookmarks EXCEPT ![BookmarkKey(req[r])] = @ + 1]
               /\ Set(r, SubDone([req[r] EXCEPT !.created = TRUE,
                                                !.cleared = @ \cup {"skills"}], "-"))
          ELSE /\ Set(r, SubDone(req[r], "Error"))
               /\ UNCHANGED bookmarks
    /\ UNCHANGED <<dbVars, balance, premium, cacheVars, nreq, streamVars>>

\* SubSkillBookmark.delete: db.get, and BookmarkNotFoundException
BookmarkGet(r) ==
    /\ At(r, "bm_get")
    /\ Set(r, IF bookmarks[BookmarkKey(req[r])] = 0
              THEN SubDone(req[r], "BookmarkNotFoundException")
              ELSE [req[r] EXCEPT !.pc = "bm_delete"])
    /\ UNCHANGED <<dbVars, balance, premium, cacheVars, nreq, streamVars, bookmarks>>

\* SubSkillBookmark.delete: db.delete removes the row db.get returned, or
\* the store fails; clear_cache("skills") follows
BookmarkDelete(r) ==
    /\ At(r, "bm_delete")
    /\ \E removed \in BOOLEAN :
          IF removed
          THEN /\ bookmarks' = [bookmarks EXCEPT ![BookmarkKey(req[r])] = @ - 1]
               /\ Set(r, SubDone([req[r] EXCEPT !.cleared = @ \cup {"skills"}], "-"))
          ELSE /\ Set(r, SubDone(req[r], "Error"))
               /\ UNCHANGED bookmarks
    /\ UNCHANGED <<dbVars, balance, premium, cacheVars, nreq, streamVars>>

----------------------------------------------------------------------------
(* The environment *)

\* the shop service starts or ends a user's premium subscription
SubscriptionChange(u) ==
    /\ premium' = IF u \in premium THEN premium \ {u} ELSE premium \cup {u}
    /\ UNCHANGED <<dbVars, balance, cacheVars, req, nreq, streamVars, bookmarks>>

----------------------------------------------------------------------------
(* Specifications *)

\* the paying user can afford the course twice, the admin not once
InitialBalance(u) == IF u \in Admins THEN AdminBalance ELSE StartBalance

\* CourseAccess rows that predate the catalog in use: a course bought while
\* it was sold and marked free since
LegacyAccess == {{}, {<<"u1", "c1">>}}

InitState(slots, access) ==
    /\ courseAccess \in access
    /\ lastWatch = {}
    /\ lectureProgress = {}
    /\ xp = [k \in Users \X Skills |-> 0]
    /\ balance = [u \in Users |-> InitialBalance(u)]
    /\ premium = {}
    /\ ownedCache = [u \in Users |-> {}]
    /\ progressCache = [k \in CatalogIds \X Users |-> {}]
    /\ req = [r \in 1..slots |-> Idle]
    /\ nreq = 0
    /\ tokens = {}
    /\ issued = {}
    /\ bookmarks = [k \in BookmarkKeys |-> 0]

Init == InitState(1, LegacyAccess)

InitConc == InitState(2, {{}})

InitStream == InitState(1, {{}})

\* the requests a client can send; the admin's are kept to the access-related ones
Requests ==
    {<<op, u, c, l>> \in Ops \X Users \X CourseInputs \X (LectureInputs \cup {"-"}) :
        /\ (op = "complete") = (l # "-")
        /\ (op = "accessible") = (c = "-")
        /\ (u \in Admins => op \in {"watch", "accessible", "buy"})}

\* the requests sent concurrently: one user, courses of the catalog
ConcRequests == {q \in Requests : q[2] = "u1" /\ q[3] # "c0"}

Arrive ==
    \E r \in Slots, q \in Requests : Begin(r, q[1], q[2], q[3], q[4])

ArriveConc ==
    \E r \in Slots, q \in ConcRequests : Begin(r, q[1], q[2], q[3], q[4])

Steps ==
    \/ \E r \in Slots : OwnedCacheGet(r)
    \/ \E r \in Slots : OwnedDbRead(r)
    \/ \E r \in Slots : OwnedCacheSet(r)
    \/ \E r \in Slots : AccessPremium(r)
    \/ \E r \in Slots : watch_course(r)
    \/ \E r \in Slots : get_course_details(r)
    \/ \E r \in Slots : AccessibleProgress(r)
    \/ \E r \in Slots : complecte_lecture(r)
    \/ \E r \in Slots : buy_course(r)
    \/ \E u \in Users \ Admins : SubscriptionChange(u)

Next == Arrive \/ Steps

NextConc == ArriveConc \/ Steps

\* one request at a time
Spec == Init /\ [][Next]_vars

\* two requests in flight, interleaved at every await
SpecConc == InitConc /\ [][NextConc]_vars

\* the requests for a lecture link, and the redemptions a client can send
StreamRequests == StreamOps \X Users \X {"c0", "c1", "c2"} \X LectureInputs

\* a client presents a token it was given, or one it made up
Redemptions ==
    ({t.token : t \in issued} \cup {NoToken})
        \X {Name("c1", "l1"), Name("c2", "l2")} \X Ranges

ArriveStream ==
    \E r \in Slots, q \in StreamRequests :
        /\ Cardinality(issued) < MaxTokens
        /\ Begin(r, q[1], q[2], q[3], q[4])

Redeem ==
    \E r \in Slots, q \in Redemptions : download_mp4_lecture(r, q[1], q[2], q[3])

NextStream ==
    \/ ArriveStream
    \/ \E r \in Slots : OwnedCacheGet(r)
    \/ \E r \in Slots : OwnedDbRead(r)
    \/ \E r \in Slots : OwnedCacheSet(r)
    \/ \E r \in Slots : AccessPremium(r)
    \/ \E r \in Slots : get_mp4_lecture_link(r)
    \/ Redeem
    \/ TokenExpire

\* lecture links and their redemption, one request at a time; nobody holds a
\* subscription, so the paid course is open to the admin only
SpecStream == InitStream /\ [][NextStream]_vars

\* the requests for a lecture link, the lecture without a file among them,
\* and redemptions with the default Range header
IssueRequests == StreamOps \X Users \X {"c0", "c1", "c2"} \X (LectureInputs \cup {"l4"})

DefaultRedemptions ==
    ({t.token : t \in issued} \cup {NoToken})
        \X {Name("c1", "l1"), Name("c2", "l2")} \X {RangeHeader(0, {})}

ArriveIssue ==
    \E r \in Slots, q \in IssueRequests :
        /\ Cardinality(issued) < MaxTokens
        /\ Begin(r, q[1], q[2], q[3], q[4])

RedeemDefault ==
    \E r \in Slots, q \in DefaultRedemptions : download_mp4_lecture(r, q[1], q[2], q[3])

NextIssue ==
    \/ ArriveIssue
    \/ \E r \in Slots : OwnedCacheGet(r)
    \/ \E r \in Slots : OwnedDbRead(r)
    \/ \E r \in Slots : OwnedCacheSet(r)
    \/ \E r \in Slots : AccessPremium(r)
    \/ \E r \in Slots : get_mp4_lecture_link(r)
    \/ RedeemDefault
    \/ TokenExpire
    \/ \E u \in Users \ Admins : SubscriptionChange(u)

\* the issuance of lecture links under changing subscriptions, and their
\* redemption with the default Range header
SpecIssue == InitStream /\ [][NextIssue]_vars

\* LectureProgress rows that predate the catalog in use: l2 was a lecture of
\* c1 when the user completed it
LegacyProgress == {{}, {<<"u1", "c1", "l2">>}}

InitView ==
    /\ courseAccess = {}
    /\ lastWatch = {}
    /\ lectureProgress \in LegacyProgress
    /\ xp = [k \in Users \X Skills |-> 0]
    /\ balance = [u \in Users |-> InitialBalance(u)]
    /\ premium = {}
    /\ ownedCache = [u \in Users |-> {}]
    /\ progressCache = [k \in CatalogIds \X Users |-> {}]
    /\ req = [r \in 1..1 |-> Idle]
    /\ nreq = 0
    /\ tokens = {}
    /\ issued = {}
    /\ bookmarks = [k \in BookmarkKeys |-> 0]

\* lecture completions and the view-time endpoints
ViewRequests ==
    ({"complete"} \X Users \X CatalogIds \X LectureInputs)
        \cup (ViewOps \X Users \X {"-"} \X {"-"})

ArriveView ==
    \E r \in Slots, q \in ViewRequests : Begin(r, q[1], q[2], q[3], q[4])

NextView ==
    \/ ArriveView
    \/ \E r \in Slots : OwnedCacheGet(r)
    \/ \E r \in Slots : OwnedDbRead(r)
    \/ \E r \in Slots : OwnedCacheSet(r)
    \/ \E r \in Slots : AccessPremium(r)
    \/ \E r \in Slots : complecte_lecture(r)
    \/ \E r \in Slots : ViewtimeRead(r)
    \/ \E r \in Slots : TasksFetch(r)

\* lecture completion and view time, one request at a time
SpecView == InitView /\ [][NextView]_vars

InitBookmarks == InitState(1, {{}})

InitBookmarksConc == InitState(2, {{}})

\* the bookmark requests a client can send
BookmarkRequests ==
    {<<op, u, root, sub>> \in (RootOps \cup SubOps) \X BookmarkUsers \X RootInputs
                              \X (SubInputs \cup {"-"}) :
        (op \in RootOps) = (sub = "-")}

ArriveBookmark ==
    \E r \in Slots, q \in BookmarkRequests : BeginBookmark(r, q[1], q[2], q[3], q[4])

\* Creations arrive at any time and run interleaved; a deletion runs alone.
ArriveBookmarkConc ==
    \E r \in Slots, q \in BookmarkRequests :
        /\ \A x \in Slots : req[x].pc # "done" => req[x].op \in CreateOps
        /\ q[1] \notin CreateOps => \A x \in Slots : req[x].pc = "done"
        /\ BeginBookmark(r, q[1], q[2], q[3], q[4])

BookmarkSteps ==
    \/ \E r \in Slots : BookmarkExists(r)
    \/ \E r \in Slots : BookmarkAdd(r)
    \/ \E r \in Slots : BookmarkGet(r)
    \/ \E r \in Slots : BookmarkDelete(r)

NextBookmarks == ArriveBookmark \/ BookmarkSteps

NextBookmarksConc == ArriveBookmarkConc \/ BookmarkSteps

\* bookmark requests one at a time
SpecBookmarks == InitBookmarks /\ [][NextBookmarks]_vars

\* two bookmark requests in flight, interleaved at every await
SpecBookmarksConc == InitBookmarksConc /\ [][NextBookmarksConc]_vars

----------------------------------------------------------------------------
(* Properties *)

Finished(r, op) == req[r].op = op /\ req[r].pc = "done"

\* what has_course_access decides for (u, c) in the current state
AccessNow(u, c) == has_course_access(COURSES[c], u, CachedOwned(u), u \in premium)

\* what get_accessible_courses lists for u in the current state
ListedNow(u) == accessible_course_ids(u, CachedOwned(u))

\* C1: in every reachable state, for every user and every course of the
\* catalog, get_accessible_courses lists the course if and only if
\* has_course_access grants the user access to it.
C1_ListedIffAccess ==
    \A u \in Users, c \in CatalogIds : (c \in ListedNow(u)) <=> AccessNow(u, c)

\* the access decision of request r falls in this step and grants
Grants(r) ==
    /\ req[r].pc # "done" /\ req[r].access = "-"
    /\ req'[r].access = "granted"

\* the grounds the claim allows for access, in the state the decision is taken in
Grounds(u, c) ==
    \/ COURSES[c].free \/ u \in Admins
    \/ <<u, c>> \in courseAccess
    \/ u \in premium

\* C2: whenever has_course_access grants (user, course), the course is free,
\* the user is admin, a CourseAccess record exists for the pair or the user
\* has an active premium subscription; a LastWatch row alone never grants.
C2_GrantOnlyOnGrounds ==
    [][\A r \in Slots : Grants(r) => Grounds(req[r].user, req[r].course)]_vars

\* a finished buy_course request for a course of the catalog that is not free
BoughtPaid(r) ==
    /\ Finished(r, "buy")
    /\ get_course(req[r].course)
    /\ ~COURSES[req[r].course].free

\* C3: buy_course for a non-free course by a user with balance >= price and
\* no ownership record succeeds, debits exactly the price, and the next
\* has_course_access grants; buy_course by a user who owns the course raises
\* AlreadyPurchasedCourseException and leaves balance and records unchanged.
C3_PurchaseThenConflict ==
    \A r \in Slots :
        BoughtPaid(r) =>
            LET u == req[r].user
                c == req[r].course
                price == COURSES[c].price
            IN  /\ (~req[r].own0 /\ req[r].bal0 >= price) =>
                        /\ req[r].out = "True"
                        /\ balance[u] = req[r].bal0 - price
                        /\ <<u, c>> \in courseAccess
                        /\ AccessNow(u, c)
                /\ req[r].own0 =>
                        /\ req[r].out = "AlreadyPurchasedCourseException"
                        /\ balance[u] = req[r].bal0
                        /\ ~req[r].created

\* a finished buy_course whose debit and record creation succeeded and whose
\* notification raised
NotificationFailed(r) ==
    /\ BoughtPaid(r)
    /\ req[r].debited > 0 /\ req[r].created
    /\ req[r].out = "Error"

\* C7: a purchase whose notification fails is kept: the ownership record
\* exists, the "course_access" namespace is invalidated (no entry computed
\* before the purchase is left for the user), and the next has_course_access
\* for the pair grants access.
C7_NotificationFailureKeepsPurchase ==
    \A r \in Slots :
        NotificationFailed(r) =>
            /\ <<req[r].user, req[r].course>> \in courseAccess
            /\ \A v \in ownedCache[req[r].user] : req[r].course \in v
            /\ AccessNow(req[r].user, req[r].course)

\* a finished complecte_lecture request that reached the handler body with an
\* existing lecture
CompletionRan(r) ==
    /\ Finished(r, "complete")
    /\ req[r].access = "granted"
    /\ req[r].out # "LectureNotFoundException"

\* C8: once complecte_lecture has created the LectureProgress row, the XP
\* increment is attempted for every skill of the course, both cache
\* namespaces are invalidated, and the row remains.
C8_XpFanOutCompletes ==
    \A r \in Slots :
        (CompletionRan(r) /\ req[r].created) =>
            /\ req[r].xpTried = SkillCourse[req[r].course]
            /\ {"xp", "lecture_progress"} \subseteq req[r].cleared
            /\ LectureRow(req[r]) \in lectureProgress

\* C9: complecte_lecture for a lecture not completed before succeeds and
\* adds exactly that lecture to the completed set; for a lecture already
\* completed it raises AlreadyCompletedLectureException and changes neither
\* the completed set, nor XP, nor any cache.
C9_SecondCompletionConflicts ==
    \A r \in Slots :
        CompletionRan(r) =>
            LET now == get_completed(req[r].user, req[r].course)
            IN  IF req[r].lecture \notin req[r].done0
                THEN /\ req[r].out = "True"
                     /\ now = req[r].done0 \cup {req[r].lecture}
                ELSE /\ req[r].out = "AlreadyCompletedLectureException"
                     /\ now = req[r].done0
                     /\ ~req[r].created
                     /\ req[r].xpAdded = {}
                     /\ req[r].cleared = {}

\* a buy_course request, in flight or finished, for a free course
BuysFree(r) ==
    /\ req[r].op = "buy"
    /\ get_course(req[r].course)
    /\ COURSES[req[r].course].free

\* C10: buy_course on a free course ends in CourseIsFreeException and has no
\* effect: no debit, no ownership record, no notification, no cache
\* invalidated.
C10_FreeCourseNeverBought ==
    \A r \in Slots :
        BuysFree(r) =>
            /\ req[r].pc \in {"buy_check", "done"}
            /\ req[r].pc = "done" => req[r].out = "CourseIsFreeException"
            /\ req[r].debited = 0 /\ ~req[r].created /\ ~req[r].sent
            /\ req[r].cleared = {}
            /\ balance[req[r].user] = req[r].bal0
            /\ (<<req[r].user, req[r].course>> \in courseAccess) = req[r].own0

\* buy_course on a free course the user already owns has been rejected
C10_Witness ==
    \E r \in Slots :
        /\ BuysFree(r) /\ req[r].pc = "done"
        /\ req[r].own0
        /\ req[r].out = "CourseIsFreeException"

\* the coins user u has spent, and the price of the courses u owns
Spent(u) == InitialBalance(u) - balance[u]

RECURSIVE PriceOf(_)
PriceOf(cs) ==
    IF cs = {} THEN 0
    ELSE LET c == CHOOSE x \in cs : TRUE
         IN  COURSES[c].price + PriceOf(cs \ {c})

OwnedPrice(u) == PriceOf({c \in CatalogIds : <<u, c>> \in courseAccess})

\* C4: of the buy_course requests for one (user, course), interleaved in any
\* way, at most one debits the ledger, and once they have all ended the user
\* has paid exactly for the ownership records that exist.
C4_ConcurrentBuyDebitsOnce ==
    /\ \A r1, r2 \in Slots :
          (/\ r1 # r2
           /\ req[r1].op = "buy" /\ req[r2].op = "buy"
           /\ req[r1].user = req[r2].user /\ req[r1].course = req[r2].course)
          => ~(req[r1].debited > 0 /\ req[r2].debited > 0)
    /\ (\A r \in Slots : req[r].pc = "done") => \A u \in Users : Spent(u) = OwnedPrice(u)

\* C5: of the complecte_lecture requests for one (user, course, lecture),
\* interleaved in any way, one creates the row and returns success and every
\* other one gets AlreadyCompletedLectureException; the lecture XP of a
\* skill is added at most once per completed lecture.
C5_ConcurrentCompletionOnce ==
    /\ \A r1, r2 \in Slots :
          (/\ r1 # r2
           /\ CompletionRan(r1) /\ CompletionRan(r2)
           /\ LectureRow(req[r1]) = LectureRow(req[r2])
           /\ req[r1].created)
          => /\ ~req[r2].created
             /\ req[r2].out = "AlreadyCompletedLectureException"
    /\ \A u \in Users, k \in Skills :
          xp[<<u, k>>] <=
              LectureXp * Cardinality({row \in lectureProgress :
                                          row[1] = u /\ k \in SkillCourse[row[2]]})

\* C6: a get_course_details that starts after complecte_lecture has reported
\* a lecture completed reports that lecture as completed.
C6_DetailsSeeCompletion ==
    \A r \in Slots :
        (Finished(r, "details") /\ req[r].out = "True") => req[r].ack0 \subseteq req[r].res

\* C11: within one buy_course call, a refused debit ends the call in
\* NotEnoughCoinsError with no ownership record for the pair and nothing
\* changed; an accepted debit leaves an ownership record for (user, course)
\* when the call ends.
C11_DebitAndRecordAgree ==
    \A r \in Slots :
        BoughtPaid(r) =>
            LET pair == <<req[r].user, req[r].course>>
                refused == /\ ~req[r].own0
                           /\ req[r].bal0 < COURSES[req[r].course].price
            IN  /\ refused <=> req[r].out = "NotEnoughCoinsError"
                /\ refused =>
                        /\ pair \notin courseAccess
                        /\ req[r].debited = 0 /\ ~req[r].created /\ ~req[r].sent
                        /\ req[r].cleared = {}
                        /\ balance[req[r].user] = req[r].bal0
                /\ req[r].debited > 0 => pair \in courseAccess

\* a debit was refused after another user's purchase of the course went through
C11_Witness ==
    \E r \in Slots :
        /\ BoughtPaid(r) /\ req[r].out = "NotEnoughCoinsError"
        /\ \E u \in Users \ {req[r].user} :
              <<u, req[r].course>> \in courseAccess /\ balance[u] < InitialBalance(u)

\* this step is a call of download_mp4_lecture in slot r
Redeems(r) == nreq' = nreq + 1 /\ req'[r].op = "download"

\* a key stored by get_mp4_lecture_link for (token, file) whose TTL has not elapsed
Live(token, file) == \E t \in issued \cap tokens : t.token = token /\ t.name = file

\* a download that returned nothing
NoData(rec) == rec.out = "LectureNotFoundException" /\ rec.body = << >> /\ rec.crange = << >>

\* C12: download_mp4_lecture returns data only for a token issued by
\* get_mp4_lecture_link whose TTL has not elapsed; for an unknown or expired
\* token it raises LectureNotFoundException and returns no data; a token
\* that has expired never becomes redeemable again.
C12_RedeemOnlyLiveToken ==
    [][/\ \A r \in Slots :
             Redeems(r) =>
                 IF Live(req'[r].token, req'[r].file)
                 THEN req'[r].out # "LectureNotFoundException"
                 ELSE NoData(req'[r])
       /\ tokens' \subseteq issued'
       /\ \A t \in issued \ tokens : \A k \in tokens' : k.token # t.token]_vars

\* an expired token was presented and refused
C12_Witness ==
    \E r \in Slots :
        /\ Finished(r, "download") /\ NoData(req[r])
        /\ \E t \in issued \ tokens : t.token = req[r].token /\ t.name = req[r].file

\* a finished download_mp4_lecture request whose token was accepted
Redeemed(r) == Finished(r, "download") /\ req[r].out # "LectureNotFoundException"

\* C13: download_mp4_lecture rejects a request whose range start exceeds the
\* file size: it is not answered with status 206.
C13_StartBeyondFileRejected ==
    \A r \in Slots :
        (Redeemed(r) /\ req[r].first > req[r].size) => req[r].out # "206"

\* the bytes [from, to) of a file
Span(path, from, to) == [i \in 1..(to - from) |-> FileBytes(path)[from + i]]

\* the file a name stands for
PathOf(name) == Path(name[1], name[2])

\* C14: for a file of size S and chunk size K, "bytes=0-" yields the bytes
\* [0, min(S, K)) and "bytes=a-b" with a <= b the bytes [a, min(b+1, S));
\* the response has status 206, Content-Range "bytes <start>-<end-1>/S" and
\* a body of exactly end - start bytes, end being the clamped exclusive end.
C14_RangeArithmetic ==
    \A r \in Slots :
        Redeemed(r) =>
            \A a \in Offsets, e \in {{}} \cup {{b} : b \in Offsets} :
                (/\ req[r].range = RangeHeader(a, e)
                 /\ e = {} => a = 0
                 /\ \A b \in e : a <= b)
                =>
                LET S == Mp4Files[PathOf(req[r].file)]
                    end == IF e = {} THEN Min(S, StreamChunkSize)
                           ELSE Min((CHOOSE b \in e : TRUE) + 1, S)
                IN  /\ req[r].out = "206"
                    /\ req[r].body = Span(PathOf(req[r].file), a, end)
                    /\ Len(req[r].body) = end - a
                    /\ req[r].crange = ContentRange(a, end - 1, S)

\* C15: every accepted Range header, with or without an explicit end, is
\* answered with at most settings.stream_chunk_size bytes.
C15_ReadBoundedByChunk ==
    \A r \in Slots :
        (Redeemed(r) /\ req[r].out = "206") => Len(req[r].body) <= StreamChunkSize

\* C16: redeeming a token is a pure read: the token store, the tables, the
\* ledger and the caches are unchanged by download_mp4_lecture, a live token
\* is accepted however often it was redeemed before, and a redemption with
\* the same token and range as the one before returns the same bytes and the
\* same Content-Range.
C16_RedemptionIsPureRead ==
    [][\A r \in Slots :
          Redeems(r) =>
              /\ UNCHANGED <<streamVars, dbVars, balance, cacheVars>>
              /\ Live(req'[r].token, req'[r].file) => req'[r].out # "LectureNotFoundException"
              /\ (req'[r].before # << >> /\ Live(req'[r].token, req'[r].file)) =>
                     /\ req'[r].out = "206"
                     /\ req'[r].before = <<req'[r].body, req'[r].crange>>]_vars

\* a token has been redeemed a second time, for the same range, and is still live
C16_Witness ==
    \E r \in Slots :
        /\ Redeemed(r) /\ req[r].out = "206" /\ req[r].body # << >>
        /\ req[r].before # << >>
        /\ Live(req[r].token, req[r].file)

\* a finished get_tasks_viewtime or get_viewtime request
TasksAsked(r) == Finished(r, "tasks_viewtime") \/ Finished(r, "viewtime")

\* C17: when the external subtask source fails or returns malformed data,
\* get_tasks_viewtime and get_viewtime end in the typed DataFetchError
\* outcome, never in an unhandled exception, and get_viewtime adds nothing
\* to a task result that is an error.
C17_SourceFailureIsDataFetchError ==
    \A r \in Slots :
        (TasksAsked(r) /\ req[r].source \in {"failed", "malformed"}) =>
            req[r].out = "DataFetchError"

RECURSIVE SumFn(_)
\* the sum of the values of a function with a finite domain
SumFn(f) ==
    IF DOMAIN f = {} THEN 0
    ELSE LET x == CHOOSE y \in DOMAIN f : TRUE
         IN  f[x] + SumFn([y \in DOMAIN f \ {x} |-> f[y]])

\* the positions <<section, lecture>> of the catalog lectures of course c that
\* user u has completed and that have a positive duration
Watched(u, c) ==
    {p \in UNION {{<<i, j>> : j \in DOMAIN COURSES[c].sections[i].lectures} :
                     i \in DOMAIN COURSES[c].sections} :
        LET lecture == COURSES[c].sections[p[1]].lectures[p[2]]
        IN  <<u, c, lecture.id>> \in lectureProgress /\ lecture.duration > 0}

Duration(c, p) == COURSES[c].sections[p[1]].lectures[p[2]].duration

\* the view time user u has in section i of course c, and in course c
SectionViewTime(u, c, i) ==
    SumFn([p \in {q \in Watched(u, c) : q[1] = i} |-> Duration(c, p)])

CourseViewTime(u, c) == SumFn([p \in Watched(u, c) |-> Duration(c, p)])

\* C18: get_course_viewtime(user).total_time is the sum of the durations of
\* the catalog lectures the user has completed and whose duration is
\* positive; the courses listed are those with a positive total, each total
\* the sum of its listed section totals, each section total the sum of its
\* listed lecture times, and nothing with total 0 is listed.
C18_ViewTimeIsSumOfCompleted ==
    \A r \in Slots :
        Finished(r, "course_viewtime") =>
            LET u == req[r].user
                view == req[r].view
            IN  /\ req[r].total = SumFn([c \in CatalogIds |-> CourseViewTime(u, c)])
                /\ req[r].total = SumFn([i \in DOMAIN view |-> view[i].total_time])
                /\ {view[i].sub_skill_id : i \in DOMAIN view}
                       = {c \in CatalogIds : CourseViewTime(u, c) > 0}
                /\ Len(view) = Cardinality({c \in CatalogIds : CourseViewTime(u, c) > 0})
                /\ \A i \in DOMAIN view :
                      LET c == view[i].sub_skill_id
                          secs == view[i].sections
                      IN  /\ view[i].total_time = CourseViewTime(u, c)
                          /\ view[i].total_time
                                 = SumFn([k \in DOMAIN secs |-> secs[k].total_time])
                          /\ {secs[k].section_name : k \in DOMAIN secs}
                                 = {n \in DOMAIN COURSES[c].sections :
                                       SectionViewTime(u, c, n) > 0}
                          /\ \A k \in DOMAIN secs :
                                /\ secs[k].total_time
                                       = SectionViewTime(u, c, secs[k].section_name)
                                /\ secs[k].total_time
                                       = SumFn([n \in DOMAIN secs[k].lectures |->
                                                   secs[k].lectures[n].time])

\* the view time of a user who has completed lectures that count and a
\* lecture that does not (no duration, or no longer in the catalog)
C18_Witness ==
    \E r \in Slots :
        /\ Finished(r, "course_viewtime") /\ req[r].total > 0
        /\ \E row \in lectureProgress :
              /\ row[1] = req[r].user
              /\ \A p \in Watched(row[1], row[2]) :
                    COURSES[row[2]].sections[p[1]].lectures[p[2]].id # row[3]

\* C19: for every list of solved subtasks the source returns,
\* get_tasks_viewtime returns 60 for every MULTIPLE_CHOICE_QUESTION or
\* MATCHING subtask plus 1800 for every CODING_CHALLENGE subtask; any other
\* type adds 0 and is no error.
C19_TaskTimeByType ==
    \A r \in Slots :
        (Finished(r, "tasks_viewtime") /\ req[r].source = "ok") =>
            LET tasks == req[r].tasks
                Count(types) == Cardinality({i \in DOMAIN tasks : tasks[i] \in types})
            IN  /\ req[r].out = "TotalTime"
                /\ req[r].total = 60 * Count({"MULTIPLE_CHOICE_QUESTION", "MATCHING"})
                                      + 1800 * Count({"CODING_CHALLENGE"})

\* a list with a MATCHING subtask and one of a type that does not count
C19_Witness ==
    \E r \in Slots :
        /\ Finished(r, "tasks_viewtime") /\ req[r].source = "ok"
        /\ \E i, j \in DOMAIN req[r].tasks :
              req[r].tasks[i] = "MATCHING" /\ req[r].tasks[j] = "OTHER"
        /\ req[r].total = QuestionTime

\* a finished complecte_lecture request for a course of the catalog and a
\* lecture id the course does not have
UnknownLecture(r) ==
    /\ Finished(r, "complete")
    /\ get_course(req[r].course)
    /\ req[r].lecture \notin LectureIds(COURSES[req[r].course])

\* complecte_lecture had no effect: no row, no XP, no cache invalidated
NoCompletionEffect(r) ==
    /\ ~req[r].created /\ req[r].xpTried = {} /\ req[r].xpAdded = {}
    /\ req[r].cleared = {}
    /\ get_completed(req[r].user, req[r].course) = req[r].done0

\* C20 as stated: for a lecture id that is not in the course's catalog entry
\* complecte_lecture raises LectureNotFoundException, whatever the progress
\* store holds, and has no effect.
C20_UnknownLectureNotFound ==
    \A r \in Slots :
        UnknownLecture(r) =>
            /\ req[r].out = "LectureNotFoundException"
            /\ NoCompletionEffect(r)

\* C20 amended: has_course_access is checked before the lecture is looked
\* up.  For a lecture id that is not in the course's catalog entry
\* complecte_lecture raises NoCourseAccessException when the user has no
\* access to the course and LectureNotFoundException when the user has,
\* whatever the progress store holds, and has no effect in either case.
C20_AccessThenLectureThenCompleted ==
    \A r \in Slots :
        UnknownLecture(r) =>
            /\ req[r].out = IF req[r].access = "granted" THEN "LectureNotFoundException"
                            ELSE "NoCourseAccessException"
            /\ NoCompletionEffect(r)

\* a lecture id unknown to the course was refused although the progress
\* store holds a row for it
C20_Witness ==
    \E r \in Slots :
        /\ UnknownLecture(r)
        /\ req[r].lecture \in req[r].done0
        /\ req[r].out = "LectureNotFoundException"

\* this step stores key k: it is the body of get_mp4_lecture_link in slot r,
\* reached with access granted, for an mp4 lecture of the course whose file
\* exists, and k binds the lecture's name to the lecture's path
IssuedBy(r, k) ==
    /\ req[r].op = "link" /\ req[r].pc = "link" /\ req[r].access = "granted"
    /\ req'[r].pc = "done" /\ req'[r].out = "True" /\ req'[r].token = k.token
    /\ get_course(req[r].course)
    /\ \E lecture \in Range(Flatten(COURSES[req[r].course].sections)) :
          /\ lecture.id = req[r].lecture /\ lecture.type = "mp4"
          /\ k.name = Name(req[r].course, lecture.id)
          /\ k.path = Path(req[r].course, lecture.id)
    /\ k.path \in DOMAIN Mp4Files

\* this step ends a get_mp4_lecture_link request without a link
IssuanceRejected(r) ==
    /\ req'[r].op = "link" /\ req'[r].pc = "done" /\ req'[r].out # "True"
    /\ req'[r] # req[r]

\* C21: every token in the store was issued by get_mp4_lecture_link after
\* has_course_access granted access, for an existing mp4 lecture whose file
\* exists, and is bound to that lecture's file: a redemption under another
\* file name yields LectureNotFoundException, a served redemption reads the
\* path bound at issuance; a rejected issuance stores no token.
C21_TokenBoundToGrantedLecture ==
    [][/\ \A k \in tokens' \ tokens : \E r \in Slots : IssuedBy(r, k)
       /\ \A r \in Slots : IssuanceRejected(r) => UNCHANGED streamVars
       /\ \A r \in Slots :
             Redeems(r) =>
                 LET bound == {k \in tokens : k.token = req'[r].token}
                 IN  /\ (\A k \in bound : k.name # req'[r].file) => NoData(req'[r])
                     /\ req'[r].out = "206" =>
                            \E k \in bound :
                                /\ k.name = req'[r].file
                                /\ req'[r].size = Mp4Files[k.path]
                                /\ req'[r].body # << >>
                                /\ \A i \in DOMAIN req'[r].body :
                                      req'[r].body[i][1] = k.path]_vars

\* the subscriber was given a link for the paid course, and the key is in
\* the store, bound to the file of that lecture
C21_Witness ==
    \E r \in Slots :
        /\ Finished(r, "link") /\ req[r].out = "True"
        /\ req[r].user \notin Admins /\ ~COURSES[req[r].course].free
        /\ \E k \in tokens :
              /\ k.token = req[r].token /\ k.name = req[r].file
              /\ k.path = Path(req[r].course, req[r].lecture)

\* a create_bookmark or delete_bookmark on an existing root skill has returned
RootDone(r) ==
    /\ req[r].pc = "done"
    /\ req[r].op \in RootOps
    /\ req[r].root \in DOMAIN RootSkills

\* what holds of every finished create_bookmark and delete_bookmark: True is
\* returned, every sub skill of the root was attempted whatever failed
\* before it, and after create_bookmark the sub skills whose creation did
\* not fail are bookmarked
AllAttempted(r) ==
    /\ req[r].out = "True"
    /\ req[r].tried = Range(RootSkills[req[r].root])
    /\ req[r].op = "create_bookmark" =>
          (req[r].tried \ req[r].failed) \subseteq Bookmarked(req[r].user, req[r].root)

BookmarkStep(r, pc) == req[r].pc = pc /\ req'[r] # req[r]

\* the call for the sub skill at the head of the loop of slot r has raised
Raised(r, failure) ==
    /\ Head(req[r].queue) \in req'[r].failed
    /\ req[r].op \in SubOps => req'[r].out = failure

\* a sub skill deletion that followed a creation of the same triple has
\* returned True, as the creation had
DeletedAfterCreated(r) ==
    /\ req[r].pc = "done"
    /\ req[r].op = "delete_sub_skill_bookmark"
    /\ req[r].out = "True"
    /\ req[r].created0 # {}

\* C23: in every reachable state, also with SubSkillBookmark.create calls
\* interleaved, a triple (user, root skill, sub skill) has at most one
\* bookmark row; create on an existing triple raises
\* AlreadyBookmarkedException and adds no row, delete on an absent triple
\* raises BookmarkNotFoundException and removes no row, and a successful
\* create followed by a successful delete leaves the triple without a
\* bookmark, as it was before.
C23_AtMostOneRowPerTriple ==
    /\ [](\A k \in BookmarkKeys : bookmarks[k] <= 1)
    /\ [](\A r \in Slots :
             DeletedAfterCreated(r) =>
                 \A s \in req[r].created0 : bookmarks[<<req[r].user, req[r].root, s>>] = 0)
    /\ [][\A r \in Slots :
             /\ BookmarkStep(r, "bm_exists") /\ bookmarks[BookmarkKey(req[r])] > 0 =>
                   Raised(r, "AlreadyBookmarkedException") /\ UNCHANGED bookmarks
             /\ BookmarkStep(r, "bm_get") /\ bookmarks[BookmarkKey(req[r])] = 0 =>
                   Raised(r, "BookmarkNotFoundException") /\ UNCHANGED bookmarks]_vars

====
